---- MODULE Spec2Model ----
(***************************************************************************)
(* Model of the Cloud Function ETLpipeline of                              *)
(* "src/ETL Google Cloud Functions/main.py": one Pub/Sub message is        *)
(* decoded into a one-row frame, split into the Customers, Products,       *)
(* Orders and OrderDetails frames, enriched with twelve Featuretools       *)
(* aggregates, and appended to four BigQuery tables.                       *)
(*                                                                         *)
(* A frame is [cols |-> set of column names, rows |-> sequence of rows],   *)
(* a row being a function from the frame's columns to values.              *)
(*                                                                         *)
(* Spec : a stream of invocations, each on one message.  main.py:24 builds  *)
(* the frame from the single decoded value, so every frame the function    *)
(* handles has exactly one row; rows of different messages meet only in    *)
(* the warehouse tables.                                                   *)
(*                                                                         *)
(* Invocations are taken one at a time: an instance of the function        *)
(* handles one event from entry to return before the next.  The decode,    *)
(* normalisation, feature and merge code of main.py:19-99 touches only     *)
(* locals and is one step; each load of main.py:109-112 is a step of its   *)
(* own, since it changes the warehouse and may fail.                       *)
(***************************************************************************)
EXTENDS Integers, Sequences, FiniteSets, TLC

VARIABLES
    pc,               \* "idle" (no invocation running) or "load" (between main.py:99 and :112)
    n,                \* invocations started so far
    df,               \* the frame of main.py:24
    customers_df,     \* main.py:27
    products_df,      \* main.py:30
    orders_df,        \* main.py:33
    orderDetails_df,  \* main.py:36, :37, :93, :99
    loaded,           \* tables whose load completed in this invocation (main.py:106)
    err,              \* the exception handled at main.py:114-115, or NoError
    outcome,          \* "none", "running", "returned" (normal return) or "raised"
    wh,               \* the warehouse: table name -> persisted rows
    pre,              \* the warehouse when the current invocation started
    keys              \* history: the (Order ID, Product ID, key) computed at main.py:37 so far

vars == <<pc, n, df, customers_df, products_df, orders_df, orderDetails_df,
          loaded, err, outcome, wh, pre, keys>>

-----------------------------------------------------------------------------
(* Bounds *)

MaxInvocations == 2

-----------------------------------------------------------------------------
(* Schema: the literals of main.py *)

CustomerCols == {"Customer ID", "Customer Name", "Segment", "Country", "City",
                 "State", "Postal Code", "Region"}

ProductCols == {"Product ID", "Category", "Sub-Category", "Product Name"}

OrderCols == {"Order ID", "Order Date", "Ship Date", "Ship Mode"}

OrderDetailCols == {"Order ID", "Product ID", "Customer ID", "Sales", "Quantity",
                    "Discount", "Profit"}

KeyCol == "OrderDetail ID"

RequiredFields == CustomerCols \cup ProductCols \cup OrderCols \cup OrderDetailCols

Tables == {"Customers", "Products", "Orders", "OrderDetails"}

\* the feature names generated by ft.dfs that main.py:68-75 selects
SelectedFeatures == {
    "Customers.COUNT(OrderDetails)",
    "Products.COUNT(OrderDetails)", "Products.MAX(OrderDetails.Profit)",
    "Products.MEAN(OrderDetails.Discount)",
    "Products.SUM(OrderDetails.Quantity)", "Products.SUM(OrderDetails.Sales)",
    "Orders.COUNT(OrderDetails)", "Orders.MAX(OrderDetails.Quantity)",
    "Orders.MEAN(OrderDetails.Profit)", "Orders.SUM(OrderDetails.Sales)",
    "Orders.MONTH(Order Date)", "Orders.YEAR(Order Date)" }

\* main.py:77-90
RenameMap ==
    [g \in SelectedFeatures |->
        CASE g = "Customers.COUNT(OrderDetails)"        -> "Customer_Order_Count"
          [] g = "Products.COUNT(OrderDetails)"         -> "Product_Order_Count"
          [] g = "Products.MAX(OrderDetails.Profit)"    -> "Product_Max_Profit"
          [] g = "Products.MEAN(OrderDetails.Discount)" -> "Product_Mean_Discount"
          [] g = "Products.SUM(OrderDetails.Quantity)"  -> "Product_Total_Quantity"
          [] g = "Products.SUM(OrderDetails.Sales)"     -> "Product_Total_Sales"
          [] g = "Orders.COUNT(OrderDetails)"           -> "Order_Item_Count"
          [] g = "Orders.MAX(OrderDetails.Quantity)"    -> "Order_Max_Quantity"
          [] g = "Orders.MEAN(OrderDetails.Profit)"     -> "Order_Mean_Profit"
          [] g = "Orders.SUM(OrderDetails.Sales)"       -> "Order_Total_Sales"
          [] g = "Orders.MONTH(Order Date)"             -> "Order_Month"
          [] g = "Orders.YEAR(Order Date)"              -> "Order_Year"]

EnrichmentCols == {RenameMap[g] : g \in SelectedFeatures}

-----------------------------------------------------------------------------
(* Errors: the exception type and the line of main.py that raises it *)

NoError == [type |-> "none", line |-> 0]

Error(t, l) == [type |-> t, line |-> l]

-----------------------------------------------------------------------------
(* Input values *)

CustomerIDs == {"C1", "C2"}

OrderIDs == {"A", "A_B"}

ProductIDs == {"C", "B_C"}

SalesValues == {10, 20}

\* calendar parts of the date strings of the input domain, as pandas parses them
DateParts == [d \in {"2024-03-15"} |-> [year |-> 2024, month |-> 3]]

\* one flat sales record: the JSON object of one message
Record(cid, oid, pid, sales) ==
    [f \in RequiredFields |->
        CASE f = "Customer ID"   -> cid
          [] f = "Customer Name" -> "Ann"
          [] f = "Segment"       -> "Consumer"
          [] f = "Country"       -> "US"
          [] f = "City"          -> "Austin"
          [] f = "State"         -> "Texas"
          [] f = "Postal Code"   -> 73301
          [] f = "Region"        -> "Central"
          [] f = "Product ID"    -> pid
          [] f = "Category"      -> "Furniture"
          [] f = "Sub-Category"  -> "Chairs"
          [] f = "Product Name"  -> "Chair"
          [] f = "Order ID"      -> oid
          [] f = "Order Date"    -> "2024-03-15"
          [] f = "Ship Date"     -> "2024-03-18"
          [] f = "Ship Mode"     -> "Standard"
          [] f = "Sales"         -> sales
          [] f = "Quantity"      -> 2
          [] f = "Discount"      -> 0
          [] f = "Profit"        -> 5]

Records == {Record(c, o, p, s) : c \in CustomerIDs, o \in OrderIDs,
                                 p \in ProductIDs, s \in SalesValues}

Restrict(r, cols) == [c \in cols |-> r[c]]

\* objects that lack one field; one per projection of main.py:27, :30, :33, :36
DroppedFields == {"Region", "Category", "Ship Mode", "Profit"}

PartialRecords ==
    {Restrict(Record("C1", "A", "C", 10), RequiredFields \ {f}) : f \in DroppedFields}

\* a Pub/Sub event: what event['data'] holds, by how far decoding gets
Events ==
    [kind : {"no_data", "bad_base64", "bad_utf8", "bad_json", "json_scalar"},
     value : {<<>>}]
    \cup [kind : {"json_object"}, value : Records \cup PartialRecords]

-----------------------------------------------------------------------------
(* Step 1: decoding, main.py:19-24 *)

\* main.py:19-21: event['data'], base64.b64decode, .decode('utf-8'), json.loads
Decode(event) ==
    CASE event.kind = "no_data"    -> [err |-> Error("KeyError", 19), data |-> <<>>]
      [] event.kind = "bad_base64" -> [err |-> Error("binascii.Error", 19), data |-> <<>>]
      [] event.kind = "bad_utf8"   -> [err |-> Error("UnicodeDecodeError", 19), data |-> <<>>]
      [] event.kind = "bad_json"   -> [err |-> Error("JSONDecodeError", 21), data |-> <<>>]
      [] OTHER                     -> [err |-> NoError, data |-> event.value]

\* main.py:24: pd.DataFrame([data]); an object gives one row whose columns are
\* its keys, any other JSON value gives one row under the column 0
DataFrame(event) ==
    IF event.kind = "json_object"
    THEN [cols |-> DOMAIN event.value, rows |-> <<event.value>>]
    ELSE [cols |-> {"0"}, rows |-> <<[c \in {"0"} |-> "scalar"]>>]

EmptyFrame == [cols |-> {}, rows |-> <<>>]

-----------------------------------------------------------------------------
(* Frame operations (pandas) *)

\* df[[...]] on a frame that has the columns
Project(f, cols) ==
    [cols |-> cols, rows |-> [i \in 1..Len(f.rows) |-> Restrict(f.rows[i], cols)]]

\* DataFrame.drop_duplicates(subset=...): keep='first', order kept
RECURSIVE DropDuplicates(_, _)
DropDuplicates(rows, subset) ==
    IF rows = <<>> THEN <<>>
    ELSE LET init == DropDuplicates(SubSeq(rows, 1, Len(rows) - 1), subset)
             last == rows[Len(rows)]
         IN  IF \E i \in 1..Len(init) : Restrict(init[i], subset) = Restrict(last, subset)
             THEN init
             ELSE Append(init, last)

Dedup(f, subset) == [cols |-> f.cols, rows |-> DropDuplicates(f.rows, subset)]

\* main.py:37: astype(str) + "_" + astype(str); the IDs of the domain are strings
JoinKey(oid, pid) == oid \o "_" \o pid

\* main.py:37: the new column on every row
WithKey(f) ==
    [cols |-> f.cols \cup {KeyCol},
     rows |-> [i \in 1..Len(f.rows) |->
                 [c \in f.cols \cup {KeyCol} |->
                     IF c = KeyCol
                     THEN JoinKey(f.rows[i]["Order ID"], f.rows[i]["Product ID"])
                     ELSE f.rows[i][c]]]]

\* DropColumn with the drop left out
KeepColumn(f, col) == f

\* main.py:99: DataFrame.drop(columns=[...])
DropColumn(f, col) == Project(f, f.cols \ {col})

-----------------------------------------------------------------------------
(* Step 2: the entity set and deep feature synthesis, main.py:42-65 *)

\* EntitySet.add_dataframe(index=col), main.py:45-48: the index column must be unique
IndexUnique(f, col) ==
    \A i, j \in 1..Len(f.rows) : f.rows[i][col] = f.rows[j][col] => i = j

\* the rows of the child frame that belong to the parent row with key v
Children(rows, col, v) == SelectSeq(rows, LAMBDA r : r[col] = v)

RECURSIVE SumOf(_, _)
SumOf(rows, attr) ==
    IF rows = <<>> THEN 0 ELSE rows[1][attr] + SumOf(Tail(rows), attr)

RECURSIVE MaxOf(_, _)
MaxOf(rows, attr) ==
    IF Len(rows) = 1 THEN rows[1][attr]
    ELSE LET m == MaxOf(Tail(rows), attr)
         IN  IF rows[1][attr] >= m THEN rows[1][attr] ELSE m

RECURSIVE Gcd(_, _)
Gcd(a, b) == IF b = 0 THEN a ELSE Gcd(b, a % b)

\* the mean as an exact fraction in lowest terms
MeanOf(rows, attr) ==
    LET s == SumOf(rows, attr)
        g == Gcd(Len(rows), s)
    IN  [num |-> s \div g, den |-> Len(rows) \div g]

\* COUNT, SUM, MAX, MEAN of the child rows of one parent (relationships of main.py:51-57)
COUNT(od, col, v) == Len(Children(od, col, v))

\* SUM with the COUNT primitive in its place
SumAsCount(od, col, v, attr) == Len(Children(od, col, v))

SUM(od, col, v, attr) == SumOf(Children(od, col, v), attr)

MAX(od, col, v, attr) == MaxOf(Children(od, col, v), attr)

MEAN(od, col, v, attr) == MeanOf(Children(od, col, v), attr)

\* the Orders row a fact row points to, through the index 'Order ID'
OrderOf(orders, oid) == CHOOSE o \in {orders.rows[i] : i \in 1..Len(orders.rows)} :
                            o["Order ID"] = oid

\* the identity features of the target frame, part of the matrix but not selected
IdentityFeatures == {"Sales", "Quantity", "Discount", "Profit"}

\* one row of the feature matrix, for the fact row r
FeatureRow(r, od, orders) ==
    LET c == r["Customer ID"]
        p == r["Product ID"]
        o == r["Order ID"]
    IN  [g \in SelectedFeatures \cup IdentityFeatures |->
          CASE g = "Customers.COUNT(OrderDetails)"        -> COUNT(od, "Customer ID", c)
            [] g = "Products.COUNT(OrderDetails)"         -> COUNT(od, "Product ID", p)
            [] g = "Products.MAX(OrderDetails.Profit)"    -> MAX(od, "Product ID", p, "Profit")
            [] g = "Products.MEAN(OrderDetails.Discount)" -> MEAN(od, "Product ID", p, "Discount")
            [] g = "Products.SUM(OrderDetails.Quantity)"  -> SUM(od, "Product ID", p, "Quantity")
            [] g = "Products.SUM(OrderDetails.Sales)"     -> SUM(od, "Product ID", p, "Sales")
            [] g = "Orders.COUNT(OrderDetails)"           -> COUNT(od, "Order ID", o)
            [] g = "Orders.MAX(OrderDetails.Quantity)"    -> MAX(od, "Order ID", o, "Quantity")
            [] g = "Orders.MEAN(OrderDetails.Profit)"     -> MEAN(od, "Order ID", o, "Profit")
            [] g = "Orders.SUM(OrderDetails.Sales)"       -> SUM(od, "Order ID", o, "Sales")
            [] g = "Orders.MONTH(Order Date)"  -> DateParts[OrderOf(orders, o)["Order Date"]].month
            [] g = "Orders.YEAR(Order Date)"   -> DateParts[OrderOf(orders, o)["Order Date"]].year
            [] OTHER                           -> r[g]]

\* ft.dfs(target_dataframe_name="OrderDetails"), main.py:60-65: one matrix row
\* per fact row, indexed by 'OrderDetail ID'
DFS(od, orders) ==
    [i \in 1..Len(od.rows) |->
        [key |-> od.rows[i][KeyCol], f |-> FeatureRow(od.rows[i], od.rows, orders)]]

\* main.py:68-90: the twelve selected columns under their output names
SelectRename(matrix) ==
    [i \in 1..Len(matrix) |->
        [key |-> matrix[i].key,
         f   |-> [c \in EnrichmentCols |->
                    matrix[i].f[CHOOSE g \in SelectedFeatures : RenameMap[g] = c]]]]

-----------------------------------------------------------------------------
(* The merge, main.py:93-97 *)

Null == "NaN"

\* a left row extended with the features fs
Extend(l, fs) ==
    [c \in (DOMAIN l) \cup EnrichmentCols |-> IF c \in DOMAIN l THEN l[c] ELSE fs[c]]

\* MergeRows under left_on="Order ID", how="inner": unmatched left rows are lost
RECURSIVE MergeInnerOnOrderID(_, _)
MergeInnerOnOrderID(left, right) ==
    IF left = <<>> THEN <<>>
    ELSE LET l == Head(left)
             m == SelectSeq(right, LAMBDA x : x.key = l["Order ID"])
         IN  [i \in 1..Len(m) |-> Extend(l, m[i].f)] \o MergeInnerOnOrderID(Tail(left), right)

\* DataFrame.merge(on=KeyCol, how="left"): for each left row, in order, one
\* output row per matching right row, or one row of nulls when none matches
RECURSIVE MergeRows(_, _)
MergeRows(left, right) ==
    IF left = <<>> THEN <<>>
    ELSE LET l == Head(left)
             m == SelectSeq(right, LAMBDA x : x.key = l[KeyCol])
         IN  (IF m = <<>>
              THEN <<Extend(l, [c \in EnrichmentCols |-> Null])>>
              ELSE [i \in 1..Len(m) |-> Extend(l, m[i].f)])
             \o MergeRows(Tail(left), right)

Merge(f, right) ==
    [cols |-> f.cols \cup EnrichmentCols, rows |-> MergeRows(f.rows, right)]

-----------------------------------------------------------------------------
(* The transformation of main.py:27-99 as a function of the frame of :24.  *)
(* The result holds the exception raised, if any, the four frames as they  *)
(* stand at that point, and the fact frame as main.py:37 left it.          *)

Result(e, c, p, o, od, k) ==
    [err |-> e, customers |-> c, products |-> p, orders |-> o, orderDetails |-> od,
     keyed |-> k]

DetailKey == {"Order ID", "Product ID"}

Transform(f) ==
    IF ~(CustomerCols \subseteq f.cols)
    THEN Result(Error("KeyError", 27), EmptyFrame, EmptyFrame, EmptyFrame, EmptyFrame, EmptyFrame)
    ELSE
    LET c == Dedup(Project(f, CustomerCols), {"Customer ID"}) IN
    IF ~(ProductCols \subseteq f.cols)
    THEN Result(Error("KeyError", 30), c, EmptyFrame, EmptyFrame, EmptyFrame, EmptyFrame)
    ELSE
    LET p == Dedup(Project(f, ProductCols), {"Product ID"}) IN
    IF ~(OrderCols \subseteq f.cols)
    THEN Result(Error("KeyError", 33), c, p, EmptyFrame, EmptyFrame, EmptyFrame)
    ELSE
    LET o == Dedup(Project(f, OrderCols), OrderCols) IN
    IF ~(OrderDetailCols \subseteq f.cols)
    THEN Result(Error("KeyError", 36), c, p, o, EmptyFrame, EmptyFrame)
    ELSE
    LET od == WithKey(Dedup(Project(f, OrderDetailCols), DetailKey)) IN
    IF ~IndexUnique(c, "Customer ID") THEN Result(Error("IndexError", 45), c, p, o, od, od)
    ELSE IF ~IndexUnique(p, "Product ID") THEN Result(Error("IndexError", 46), c, p, o, od, od)
    ELSE IF ~IndexUnique(o, "Order ID") THEN Result(Error("IndexError", 47), c, p, o, od, od)
    ELSE IF ~IndexUnique(od, KeyCol) THEN Result(Error("IndexError", 48), c, p, o, od, od)
    ELSE
    LET selected == SelectRename(DFS(od, o))
        merged   == Merge(od, selected)
    IN  Result(NoError, c, p, o, DropColumn(merged, KeyCol), od)

-----------------------------------------------------------------------------
(* Step 3: the sink, main.py:102-112 *)

\* WriteAppend under write_disposition="WRITE_TRUNCATE"
WriteTruncate(table, rows) == rows

\* main.py:104-105: a load job with write_disposition="WRITE_APPEND"
WriteAppend(table, rows) == table \o rows

\* LoadOrder with the fact table loaded before the dimensions
LoadFactFirst == <<"OrderDetails", "Customers", "Products", "Orders">>

\* main.py:109-112: the order of the four calls
LoadOrder == <<"Customers", "Products", "Orders", "OrderDetails">>

\* the frame each call passes
FrameFor(t) ==
    CASE t = "Customers"    -> customers_df
      [] t = "Products"     -> products_df
      [] t = "Orders"       -> orders_df
      [] t = "OrderDetails" -> orderDetails_df

\* Caught under "except KeyError"
CaughtKeyErrorOnly(e) == e.type = "KeyError"

\* main.py:114: "except Exception" handles every exception raised in the try block
Caught(e) == TRUE

-----------------------------------------------------------------------------
(* Actions *)

\* main.py:114-115: the handler prints the error and the function returns;
\* an exception it did not handle would leave the function
Handle(e) ==
    /\ err' = e
    /\ outcome' = IF Caught(e) THEN "returned" ELSE "raised"
    /\ pc' = "idle"

\* main.py:27-99 on the frame f, up to the first load
Run(f) ==
    LET t == Transform(f) IN
    /\ df' = f
    /\ customers_df' = t.customers
    /\ products_df' = t.products
    /\ orders_df' = t.orders
    /\ orderDetails_df' = t.orderDetails
    /\ keys' = keys \cup {[oid |-> t.keyed.rows[i]["Order ID"],
                           pid |-> t.keyed.rows[i]["Product ID"],
                           key |-> t.keyed.rows[i][KeyCol]] : i \in 1..Len(t.keyed.rows)}
    /\ IF t.err = NoError
       THEN /\ pc' = "load"
            /\ err' = NoError
            /\ outcome' = "running"
       ELSE Handle(t.err)

\* ETLpipeline(event, context), main.py:13-99: one message, decoded and transformed
Receive(event) ==
    /\ pc = "idle"
    /\ n < MaxInvocations
    /\ n' = n + 1
    /\ pre' = wh
    /\ loaded' = <<>>
    /\ UNCHANGED wh
    /\ LET d == Decode(event) IN
       IF d.err = NoError
       THEN Run(DataFrame(event))
       ELSE /\ Handle(d.err)
            /\ df' = EmptyFrame
            /\ customers_df' = EmptyFrame
            /\ products_df' = EmptyFrame
            /\ orders_df' = EmptyFrame
            /\ orderDetails_df' = EmptyFrame
            /\ keys' = keys

\* load_to_bigquery(df, table_name) completing, main.py:102-106, for the next
\* call of main.py:109-112; after the fourth the function returns
LoadOk ==
    /\ pc = "load"
    /\ LET t == LoadOrder[Len(loaded) + 1] IN
       /\ wh' = [wh EXCEPT ![t] = WriteAppend(@, FrameFor(t).rows)]
       /\ loaded' = Append(loaded, t)
    /\ IF Len(loaded) + 1 = Len(LoadOrder)
       THEN /\ pc' = "idle"
            /\ outcome' = "returned"
       ELSE UNCHANGED <<pc, outcome>>
    /\ UNCHANGED <<n, df, customers_df, products_df, orders_df, orderDetails_df, err,
                   pre, keys>>

\* the load job of main.py:105 failing: nothing is appended, the exception
\* reaches main.py:114
LoadFail ==
    /\ pc = "load"
    /\ Handle(Error("GoogleAPIError", 105))
    /\ UNCHANGED <<n, df, customers_df, products_df, orders_df, orderDetails_df,
                   loaded, wh, pre, keys>>

-----------------------------------------------------------------------------
(* Specifications *)

EmptyWarehouse == [t \in Tables |-> <<>>]

Init ==
    /\ pc = "idle"
    /\ n = 0
    /\ df = EmptyFrame
    /\ customers_df = EmptyFrame
    /\ products_df = EmptyFrame
    /\ orders_df = EmptyFrame
    /\ orderDetails_df = EmptyFrame
    /\ loaded = <<>>
    /\ err = NoError
    /\ outcome = "none"
    /\ wh = EmptyWarehouse
    /\ pre = EmptyWarehouse
    /\ keys = {}

Next ==
    \/ \E event \in Events : Receive(event)
    \/ LoadOk
    \/ LoadFail

Spec == Init /\ [][Next]_vars

-----------------------------------------------------------------------------
(* Properties *)

Range(q) == {q[i] : i \in 1..Len(q)}

Finished == outcome \in {"returned", "raised"}

\* the merge of main.py:93-99 has run in this invocation
Merged == EnrichmentCols \subseteq orderDetails_df.cols

SamePair(r1, r2) ==
    r1["Order ID"] = r2["Order ID"] /\ r1["Product ID"] = r2["Product ID"]

\* C1: an invocation that returns normally has completed all four table
\* writes; an invocation that missed a write surfaces a failure instead.
C1_SuccessOnlyAfterFourWrites ==
    outcome = "returned" => Range(loaded) = Tables

\* C2: a record that lacks a required field makes the invocation fail with
\* MalformedRecordError and leaves the warehouse as it was before.
C2_MissingFieldFailsAtomically ==
    (Finished /\ df.cols \cap RequiredFields # {} /\ ~(RequiredFields \subseteq df.cols))
        => (outcome = "raised" /\ err.type = "MalformedRecordError" /\ wh = pre)

\* C3: no persisted row of any table carries the column 'OrderDetail ID', and
\* every persisted OrderDetails row has exactly the seven source columns and
\* the twelve enrichment columns.
C3_JoinKeyNeverPersisted ==
    /\ Cardinality(EnrichmentCols) = 12
    /\ \A t \in Tables : \A i \in 1..Len(wh[t]) :
          /\ KeyCol \notin DOMAIN wh[t][i]
          /\ t = "OrderDetails" => DOMAIN wh[t][i] = OrderDetailCols \cup EnrichmentCols

C3_Witness ==
    /\ Len(wh["OrderDetails"]) >= 2
    /\ Len(wh["Customers"]) >= 2

\* C4: every step leaves the rows already persisted in each of the four
\* tables in place: a table only grows at its end, and no table is added.
C4_AppendOnly ==
    [][/\ DOMAIN wh' = Tables
       /\ \A t \in Tables :
             /\ Len(wh'[t]) >= Len(wh[t])
             /\ SubSeq(wh'[t], 1, Len(wh[t])) = wh[t]]_vars

C4_Witness ==
    /\ pre["Customers"] # <<>>
    /\ Len(wh["Customers"]) > Len(pre["Customers"])
    /\ wh["Customers"][1] # wh["Customers"][Len(wh["Customers"])]

\* C5: across the invocations so far, the Customers table holds one row per
\* distinct Customer ID.
C5_OneCustomerRowPerID ==
    \A i, j \in 1..Len(wh["Customers"]) :
        wh["Customers"][i]["Customer ID"] = wh["Customers"][j]["Customer ID"] => i = j

\* C6: once the merge has run, every (Order ID, Product ID) pair of the input
\* frame has exactly one row in the enriched OrderDetails frame, every enriched
\* row is the first input row of its pair with its source columns unchanged,
\* and the enriched rows keep the input order (the frame of an invocation has
\* one row, so the enriched frame has that one row).
C6_LeftJoinCompleteness ==
    Merged =>
        LET in  == df.rows
            out == orderDetails_df.rows
            first(i) == \A h \in 1..(i - 1) : ~SamePair(in[h], in[i])
        IN  /\ \A i \in 1..Len(in) :
                  Cardinality({j \in 1..Len(out) : SamePair(out[j], in[i])}) = 1
            /\ \A j \in 1..Len(out) : \E i \in 1..Len(in) :
                  /\ first(i)
                  /\ Restrict(out[j], OrderDetailCols) = Restrict(in[i], OrderDetailCols)
                  /\ j = Cardinality({h \in 1..i : first(h)})

C6_Witness ==
    /\ Merged
    /\ Len(df.rows) = 1
    /\ Len(orderDetails_df.rows) = 1
    /\ orderDetails_df.rows[1]["Order ID"] = "A_B"
    /\ n = 2

\* C7: a failure of decoding (no 'data' field, bad base64, bad UTF-8, invalid
\* JSON) or a missing key is handled inside the function: the invocation
\* returns normally, no exception leaves it, and the error is recorded.
C7_DecodeFailuresCaught ==
    (err.line \in {19, 21} \/ err.type = "KeyError") =>
        (outcome = "returned" /\ pc = "idle")

C7_Witness ==
    /\ outcome = "returned"
    /\ err.type = "binascii.Error"
    /\ n = 2

RECURSIVE SalesOfProduct(_, _)
SalesOfProduct(rows, pid) ==
    IF rows = <<>> THEN 0
    ELSE (IF Head(rows)["Product ID"] = pid THEN Head(rows)["Sales"] ELSE 0)
         + SalesOfProduct(Tail(rows), pid)

\* C8: once the merge has run, Product_Total_Sales on every enriched row is
\* the sum of Sales over the OrderDetails rows of the invocation's frame with
\* the same Product ID (rows persisted by earlier invocations do not count).
C8_ProductTotalSales ==
    Merged =>
        LET out == orderDetails_df.rows
        IN  \A j \in 1..Len(out) :
                out[j]["Product_Total_Sales"] = SalesOfProduct(out, out[j]["Product ID"])

C8_Witness ==
    /\ Merged
    /\ Len(orderDetails_df.rows) = 1
    /\ orderDetails_df.rows[1]["Sales"] = 20
    /\ orderDetails_df.rows[1]["Product_Total_Sales"] = 20
    /\ \E i \in 1..Len(pre["OrderDetails"]) :
          /\ pre["OrderDetails"][i]["Product ID"] = orderDetails_df.rows[1]["Product ID"]
          /\ pre["OrderDetails"][i]["Sales"] = 10

\* C9: two OrderDetails rows with different (Order ID, Product ID) pairs have
\* different 'OrderDetail ID' values, over all the rows keyed so far.
C9_JoinKeyInjective ==
    \A a, b \in keys :
        (a.oid # b.oid \/ a.pid # b.pid) => a.key # b.key

\* C10: the loads of an invocation complete in the order Customers, Products,
\* Orders, OrderDetails, and only after the merge; each table whose load
\* completed holds its earlier rows followed by the invocation's frame and
\* every other table is as it was when the invocation started; a failed load
\* ends the invocation with a normal return and fewer than four loads.
C10_WriteOrdering ==
    /\ Len(loaded) <= 4
    /\ loaded = SubSeq(<<"Customers", "Products", "Orders", "OrderDetails">>, 1, Len(loaded))
    /\ (pc = "load" \/ loaded # <<>>) => (Merged /\ err.line \in {0, 105})
    /\ \A t \in Tables :
          wh[t] = IF t \in Range(loaded) THEN pre[t] \o FrameFor(t).rows ELSE pre[t]
    /\ err.line = 105 => (pc = "idle" /\ outcome = "returned" /\ Len(loaded) < 4)
    /\ pc = "load" => Len(loaded) < 4

C10_Witness ==
    /\ err.line = 105
    /\ loaded = <<"Customers", "Products">>
    /\ pre["Customers"] # <<>>
    /\ wh["Orders"] = pre["Orders"]
    /\ Len(wh["Products"]) = Len(pre["Products"]) + 1

====
